---- MODULE Spec2Model ----
(***************************************************************************)
(* Speech-playback control of the text-to-speech App component             *)
(* (src/components/icons.tsx, App, lines 177-299).                         *)
(*                                                                         *)
(* The React state of App, the voice loader of its effect, the handlers    *)
(* handleSpeak and handleStop, the utterance callbacks onstart, onend and  *)
(* onerror, and the host engine window.speechSynthesis as the component    *)
(* drives it.  Handlers read the committed state (a render separates two   *)
(* events).  speak() and stop() are the handlers handleSpeak and           *)
(* handleStop themselves, callable in any state once the component is      *)
(* mounted; the parameter edits come through the controls and obey their   *)
(* disabled attributes.  UISpec is the component with speak() and stop()   *)
(* reached through the rendered Speak and Stop buttons only.  Pitch and    *)
(* rate are in tenths (10 is 1.0).                                         *)
(*                                                                         *)
(* The engine delivers the callbacks of every utterance it was handed, at  *)
(* any later time and also after a cancel has overtaken the utterance:     *)
(* start at most once and before end, error at most once and in place of   *)
(* what was still to come.                                                 *)
(***************************************************************************)
EXTENDS Integers, Sequences, FiniteSets, TLC

\* ------------------------------------------------------------ bounds
\* commands (cancel, speak) the engine receives in one behaviour
MaxCalls == 4
\* utterances submitted in one behaviour: each takes a cancel and a speak
MaxUtt == MaxCalls \div 2
\* commands the engine receives in one behaviour of the fair specification
MaxCallsLive == 3

\* ------------------------------------------------------------ inputs
WhiteSpace == {" ", "\n"}

\* texts the user can type: a string is a sequence of characters
Texts == { <<>>, <<" ", "\n">>, <<" ", "a", " ">>, <<"b">> }

V1 == [voiceURI |-> "v1", lang |-> "en-US"]
V2 == [voiceURI |-> "v2", lang |-> "fr-FR"]
V4 == [voiceURI |-> "v4", lang |-> "de-DE"]

\* voice lists the host platform can report, in platform order
HostVoiceLists == { <<>>, <<V2, V1>>, <<V4, V2>> }

\* the range inputs of the two sliders, in tenths
SliderMin == 5
SliderMax == 20
SliderStep == 1
DefaultPitchRate == 10
SliderPositions == { v \in SliderMin..SliderMax : (v - SliderMin) % SliderStep = 0 }

\* values the pitch and the speed slider are asked to take, in tenths: 2.5 is
\* above the range, 0.3 below it
PitchInputs == { 25 }
RateInputs == { 3 }

\* ------------------------------------------------------------ state
VARIABLES
    text,              \* useState<string>('')
    voices,            \* useState<SpeechSynthesisVoice[]>([])
    selectedVoiceURI,  \* useState<string>('')
    pitch,             \* useState<number>(1)
    rate,              \* useState<number>(1)
    isSpeaking,        \* useState<boolean>(false)
    isLoadingVoices,   \* useState<boolean>(true)
    mounted,           \* the effect of App has run
    onvoiceschanged,   \* window.speechSynthesis.onvoiceschanged: "loadVoices" or "null"
    hostVoices,        \* what window.speechSynthesis.getVoices() returns
    utts,              \* the utterances handed to window.speechSynthesis.speak
    calls              \* the commands window.speechSynthesis has received, in order

appVars == <<text, voices, selectedVoiceURI, pitch, rate, isSpeaking, isLoadingVoices>>
loaderVars == <<voices, selectedVoiceURI, isLoadingVoices, onvoiceschanged>>
hostVars == <<mounted, onvoiceschanged, hostVoices>>
engineVars == <<utts, calls>>
vars == <<text, voices, selectedVoiceURI, pitch, rate, isSpeaking, isLoadingVoices,
          mounted, onvoiceschanged, hostVoices, utts, calls>>

\* ------------------------------------------------------------ helpers
\* String.prototype.trim: strip leading and trailing white space
RECURSIVE TrimStart(_)
TrimStart(s) ==
    IF s # <<>> /\ Head(s) \in WhiteSpace THEN TrimStart(Tail(s)) ELSE s

RECURSIVE TrimEnd(_)
TrimEnd(s) ==
    IF s # <<>> /\ s[Len(s)] \in WhiteSpace THEN TrimEnd(SubSeq(s, 1, Len(s) - 1)) ELSE s

Trim(s) == TrimEnd(TrimStart(s))

\* what Array.prototype.find returns when no element passes
Undefined == [voiceURI |-> "undefined", lang |-> "undefined"]
\* utterance.voice as the constructor leaves it: the platform default
NullVoice == [voiceURI |-> "null", lang |-> "null"]

First(I) == CHOOSE i \in I : \A j \in I : i <= j

\* availableVoices.find(v => v.lang === lang)
FindByLang(vs, lang) ==
    LET I == { i \in 1..Len(vs) : vs[i].lang = lang }
    IN IF I = {} THEN Undefined ELSE vs[First(I)]

\* voices.find(v => v.voiceURI === uri)
FindByURI(vs, uri) ==
    LET I == { i \in 1..Len(vs) : vs[i].voiceURI = uri }
    IN IF I = {} THEN Undefined ELSE vs[First(I)]

\* a default that is the first voice whatever its language
DefaultVoice_FirstVoice(availableVoices) == availableVoices[1]

\* availableVoices.find(v => v.lang === 'en-US') || availableVoices[0]
DefaultVoice(availableVoices) ==
    IF FindByLang(availableVoices, "en-US") # Undefined
    THEN FindByLang(availableVoices, "en-US")
    ELSE availableVoices[1]

\* the option values of the voice select
VoiceOptions == { voices[i].voiceURI : i \in 1..Len(voices) }

\* disabled attributes of the controls
TextAreaDisabled_Never == FALSE
TextAreaDisabled == isSpeaking
VoiceSelectDisabled == isLoadingVoices \/ isSpeaking \/ Len(voices) = 0
SliderDisabled == isSpeaking
\* a Speak button that tests the text alone
SpeakButtonDisabled_TextOnly == Trim(text) = <<>>
\* disabled={!text.trim() || isLoadingVoices || !selectedVoiceURI}
SpeakButtonDisabled == Trim(text) = <<>> \/ isLoadingVoices \/ selectedVoiceURI = ""

CancelCall == [op |-> "cancel", id |-> 0]
SpeakCall(id) == [op |-> "speak", id |-> id]

\* window.speechSynthesis.cancel(): every utterance not yet finished is cancelled
EngineCancel(q) ==
    [ i \in 1..Len(q) |->
        IF q[i].phase = "finished" THEN q[i] ELSE [q[i] EXCEPT !.cancelled = TRUE] ]

\* ------------------------------------------------------------ initial state
Init ==
    /\ text = <<>>
    /\ voices = <<>>
    /\ selectedVoiceURI = ""
    /\ pitch = DefaultPitchRate
    /\ rate = DefaultPitchRate
    /\ isSpeaking = FALSE
    /\ isLoadingVoices = TRUE
    /\ mounted = FALSE
    /\ onvoiceschanged = "null"
    /\ hostVoices \in HostVoiceLists
    /\ utts = <<>>
    /\ calls = <<>>

\* ------------------------------------------------------------ voice loader
\* a loader that republishes on every notification and never detaches
loadVoices_Refresh(slot) ==
    /\ voices' = hostVoices'
    /\ selectedVoiceURI' =
         IF Len(hostVoices') > 0 THEN DefaultVoice(hostVoices').voiceURI ELSE ""
    /\ isLoadingVoices' = (Len(hostVoices') = 0)
    /\ onvoiceschanged' = slot

\* a loader that publishes the catalog without a default selection
loadVoices_NoDefault(slot) ==
    IF Len(hostVoices') > 0
    THEN /\ voices' = hostVoices'
         /\ isLoadingVoices' = FALSE
         /\ onvoiceschanged' = "null"
         /\ UNCHANGED selectedVoiceURI
    ELSE /\ onvoiceschanged' = slot
         /\ UNCHANGED <<voices, selectedVoiceURI, isLoadingVoices>>

\* a loader that publishes and leaves the handler attached
loadVoices_KeepsHandler(slot) ==
    IF Len(hostVoices') > 0
    THEN /\ voices' = hostVoices'
         /\ selectedVoiceURI' = DefaultVoice(hostVoices').voiceURI
         /\ isLoadingVoices' = FALSE
         /\ onvoiceschanged' = slot
    ELSE /\ onvoiceschanged' = slot
         /\ UNCHANGED <<voices, selectedVoiceURI, isLoadingVoices>>

\* a loader that gives up on an empty list: it ends loading and detaches
loadVoices_EmptyEndsLoading(slot) ==
    IF Len(hostVoices') > 0
    THEN /\ voices' = hostVoices'
         /\ selectedVoiceURI' = DefaultVoice(hostVoices').voiceURI
         /\ isLoadingVoices' = FALSE
         /\ onvoiceschanged' = "null"
    ELSE /\ isLoadingVoices' = FALSE
         /\ onvoiceschanged' = "null"
         /\ UNCHANGED <<voices, selectedVoiceURI>>

\* loadVoices, called with the handler slot as the caller has set it; it reads
\* the platform's list as it is at the call
loadVoices(slot) ==
    LET availableVoices == hostVoices'
    IN IF Len(availableVoices) > 0
       THEN /\ voices' = availableVoices
            /\ selectedVoiceURI' = DefaultVoice(availableVoices).voiceURI
            /\ isLoadingVoices' = FALSE
            /\ onvoiceschanged' = "null"
       ELSE /\ onvoiceschanged' = slot
            /\ UNCHANGED <<voices, selectedVoiceURI, isLoadingVoices>>

\* an effect that attaches the handler and does not try at once
Mount_NoEagerAttempt ==
    /\ ~mounted
    /\ mounted' = TRUE
    /\ hostVoices' = hostVoices
    /\ onvoiceschanged' = "loadVoices"
    /\ UNCHANGED <<voices, selectedVoiceURI, isLoadingVoices>>
    /\ UNCHANGED <<text, pitch, rate, isSpeaking, utts, calls>>

\* useEffect(..., []): attach the handler, then the eager attempt
Mount ==
    /\ ~mounted
    /\ mounted' = TRUE
    /\ hostVoices' = hostVoices
    /\ loadVoices("loadVoices")
    /\ UNCHANGED <<text, pitch, rate, isSpeaking, utts, calls>>

\* the platform's voice list becomes vl and the platform dispatches voiceschanged
\* to the handler slot (getVoices() is read by loadVoices alone, so the change
\* and the dispatch are one step; a dispatch with the list as it was is vl = hostVoices)
VoicesChanged(vl) ==
    /\ mounted
    /\ hostVoices' = vl
    /\ IF onvoiceschanged = "loadVoices"
       THEN loadVoices(onvoiceschanged)
       ELSE UNCHANGED loaderVars
    /\ UNCHANGED <<text, pitch, rate, isSpeaking, mounted, utts, calls>>

\* ------------------------------------------------------------ parameter edits
\* onChange of the textarea
setText(t) ==
    /\ mounted /\ ~TextAreaDisabled
    /\ text' = t
    /\ UNCHANGED <<voices, selectedVoiceURI, pitch, rate, isSpeaking, isLoadingVoices,
                   hostVars, engineVars>>

\* onChange of the voice select
setSelectedVoiceURI(uri) ==
    /\ mounted /\ ~VoiceSelectDisabled
    /\ uri \in VoiceOptions
    /\ selectedVoiceURI' = uri
    /\ UNCHANGED <<text, voices, pitch, rate, isSpeaking, isLoadingVoices,
                   hostVars, engineVars>>

\* an input without min and max: the value asked for is the value
RangeInputValue_NoRange(v) == v

\* the value an input of type range takes when asked for v: v brought into
\* min..max and onto a step from min
RangeInputValue(v) ==
    LET c == IF v < SliderMin THEN SliderMin ELSE IF v > SliderMax THEN SliderMax ELSE v
    IN SliderMin + ((c - SliderMin) \div SliderStep) * SliderStep

\* onChange of the pitch slider: setPitch(parseFloat(e.target.value))
setPitch(v) ==
    /\ mounted /\ ~SliderDisabled
    /\ pitch' = RangeInputValue(v)
    /\ UNCHANGED <<text, voices, selectedVoiceURI, rate, isSpeaking, isLoadingVoices,
                   hostVars, engineVars>>

\* onChange of the speed slider: setRate(parseFloat(e.target.value))
setRate(v) ==
    /\ mounted /\ ~SliderDisabled
    /\ rate' = RangeInputValue(v)
    /\ UNCHANGED <<text, voices, selectedVoiceURI, pitch, isSpeaking, isLoadingVoices,
                   hostVars, engineVars>>

\* ------------------------------------------------------------ utterance controller
\* a guard that forgets the isSpeaking test
SpeakRejected_NoSpeakingTest == Trim(text) = <<>>

\* a guard that tests the text without trimming it
SpeakRejected_NoTrim == text = <<>> \/ isSpeaking

\* if (!text.trim() || isSpeaking) return;
SpeakRejected == Trim(text) = <<>> \/ isSpeaking

\* the utterance handleSpeak builds
NewUtterance ==
    LET selectedVoice == FindByURI(voices, selectedVoiceURI)
    IN [ text |-> text,
         voice |-> IF selectedVoice # Undefined THEN selectedVoice ELSE NullVoice,
         pitch |-> pitch,
         rate |-> rate,
         phase |-> "pending",
         cancelled |-> FALSE ]

\* a handleSpeak that submits without cancelling first
handleSpeak_NoCancel ==
    /\ mounted
    /\ IF SpeakRejected
       THEN UNCHANGED engineVars
       ELSE /\ Len(calls) + 2 <= MaxCalls
            /\ utts' = Append(utts, NewUtterance)
            /\ calls' = Append(calls, SpeakCall(Len(utts) + 1))
    /\ UNCHANGED <<appVars, hostVars>>

handleSpeak ==
    /\ mounted
    /\ IF SpeakRejected
       THEN UNCHANGED engineVars
       ELSE /\ Len(calls) + 2 <= MaxCalls
            /\ utts' = Append(EngineCancel(utts), NewUtterance)
            /\ calls' = calls \o <<CancelCall, SpeakCall(Len(utts) + 1)>>
    /\ UNCHANGED <<appVars, hostVars>>

\* a handleStop that leaves the state to the engine's callback
handleStop_WaitsForCallback ==
    /\ mounted
    /\ Len(calls) < MaxCalls
    /\ utts' = EngineCancel(utts)
    /\ calls' = Append(calls, CancelCall)
    /\ UNCHANGED <<appVars, hostVars>>

handleStop ==
    /\ mounted
    /\ Len(calls) < MaxCalls
    /\ utts' = EngineCancel(utts)
    /\ calls' = Append(calls, CancelCall)
    /\ isSpeaking' = FALSE
    /\ UNCHANGED <<text, voices, selectedVoiceURI, pitch, rate, isLoadingVoices, hostVars>>

\* utterance.onstart = () => setIsSpeaking(true)
onstart(u) ==
    /\ u \in 1..Len(utts)
    /\ utts[u].phase = "pending"
    /\ utts' = [utts EXCEPT ![u].phase = "started"]
    /\ isSpeaking' = TRUE
    /\ UNCHANGED <<text, voices, selectedVoiceURI, pitch, rate, isLoadingVoices, hostVars, calls>>

\* an end callback that forgets the state
onend_NoReset(u) ==
    /\ u \in 1..Len(utts)
    /\ utts[u].phase = "started"
    /\ utts' = [utts EXCEPT ![u].phase = "finished"]
    /\ UNCHANGED <<appVars, hostVars, calls>>

\* utterance.onend = () => setIsSpeaking(false)
onend(u) ==
    /\ u \in 1..Len(utts)
    /\ utts[u].phase = "started"
    /\ utts' = [utts EXCEPT ![u].phase = "finished"]
    /\ isSpeaking' = FALSE
    /\ UNCHANGED <<text, voices, selectedVoiceURI, pitch, rate, isLoadingVoices, hostVars, calls>>

\* an error callback that submits the utterance again
onerror_Retry(u) ==
    /\ u \in 1..Len(utts)
    /\ utts[u].phase \in {"pending", "started"}
    /\ Len(calls) < MaxCalls
    /\ utts' = Append([utts EXCEPT ![u].phase = "finished"],
                      [utts[u] EXCEPT !.phase = "pending"])
    /\ calls' = Append(calls, SpeakCall(Len(utts) + 1))
    /\ isSpeaking' = FALSE
    /\ UNCHANGED <<text, voices, selectedVoiceURI, pitch, rate, isLoadingVoices, hostVars>>

\* utterance.onerror = () => setIsSpeaking(false); an error can come before start
onerror(u) ==
    /\ u \in 1..Len(utts)
    /\ utts[u].phase \in {"pending", "started"}
    /\ utts' = [utts EXCEPT ![u].phase = "finished"]
    /\ isSpeaking' = FALSE
    /\ UNCHANGED <<text, voices, selectedVoiceURI, pitch, rate, isLoadingVoices, hostVars, calls>>

\* ------------------------------------------------------------ specification
Next ==
    \/ Mount
    \/ \E vl \in HostVoiceLists : VoicesChanged(vl)
    \/ \E t \in Texts : setText(t)
    \/ \E uri \in VoiceOptions : setSelectedVoiceURI(uri)
    \/ \E v \in PitchInputs : setPitch(v)
    \/ \E v \in RateInputs : setRate(v)
    \/ handleSpeak
    \/ handleStop
    \/ \E u \in 1..MaxUtt : onstart(u)
    \/ \E u \in 1..MaxUtt : onend(u)
    \/ \E u \in 1..MaxUtt : onerror(u)

Spec == Init /\ [][Next]_vars

\* the engine goes on with an utterance no cancel has overtaken: it delivers
\* the callback that is due
LiveCallback(u) ==
    /\ u \in 1..Len(utts)
    /\ ~utts[u].cancelled
    /\ (onstart(u) \/ onend(u) \/ onerror(u))

\* the same steps, with the engine's commands bounded by MaxCallsLive
FairNext ==
    \/ Mount
    \/ \E vl \in HostVoiceLists : VoicesChanged(vl)
    \/ \E t \in Texts : setText(t)
    \/ \E uri \in VoiceOptions : setSelectedVoiceURI(uri)
    \/ \E v \in PitchInputs : setPitch(v)
    \/ \E v \in RateInputs : setRate(v)
    \/ handleSpeak /\ Len(calls') <= MaxCallsLive
    \/ handleStop /\ Len(calls') <= MaxCallsLive
    \/ \E u \in 1..MaxUtt : onstart(u)
    \/ \E u \in 1..MaxUtt : onend(u)
    \/ \E u \in 1..MaxUtt : onerror(u)

FairSpec == Init /\ [][FairNext]_vars /\ \A u \in 1..MaxUtt : WF_vars(LiveCallback(u))

\* React runs the effect of a rendered component
LoaderFairSpec == Init /\ [][FairNext]_vars /\ WF_vars(Mount)

\* the handlers as the rendered buttons reach them: isSpeaking ? Stop : Speak
ClickSpeak == ~isSpeaking /\ ~SpeakButtonDisabled /\ handleSpeak
ClickStop == isSpeaking /\ handleStop

\* the component driven through its controls alone
UINext ==
    \/ Mount
    \/ \E vl \in HostVoiceLists : VoicesChanged(vl)
    \/ \E t \in Texts : setText(t)
    \/ \E uri \in VoiceOptions : setSelectedVoiceURI(uri)
    \/ \E v \in PitchInputs : setPitch(v)
    \/ \E v \in RateInputs : setRate(v)
    \/ ClickSpeak
    \/ ClickStop
    \/ \E u \in 1..MaxUtt : onstart(u)
    \/ \E u \in 1..MaxUtt : onend(u)
    \/ \E u \in 1..MaxUtt : onerror(u)

UISpec == Init /\ [][UINext]_vars

\* ------------------------------------------------------------ claims
Pending(u) == u \in 1..Len(utts) /\ utts[u].phase = "pending"
Started(u) == u \in 1..Len(utts) /\ utts[u].phase = "started"
Finished(u) == u \in 1..Len(utts) /\ utts[u].phase = "finished"
Cancelled(u) == u \in 1..Len(utts) /\ utts[u].cancelled
NumCalls(op) == Cardinality({ i \in 1..Len(calls) : calls[i].op = op })
\* empty or white space only
IsBlank(s) == \A i \in 1..Len(s) : s[i] \in WhiteSpace

\* C1: the start callback of an utterance no cancel has overtaken makes the
\* state Speaking; an utterance speak() has submitted and no cancel has
\* overtaken leads to Speaking with that utterance started (or, when the engine
\* answers with error in place of start or a cancel overtakes it, to no
\* utterance in flight); and Speaking with an utterance in flight leads back
\* to Idle.
C1_SpeakLeadsToSpeakingThenIdle ==
    /\ [][\A u \in 1..MaxUtt :
            (onstart(u) /\ ~utts[u].cancelled) => isSpeaking']_vars
    /\ (\E u \in 1..MaxUtt : Pending(u) /\ ~Cancelled(u))
          ~> (\/ \E u \in 1..MaxUtt : Started(u) /\ ~Cancelled(u) /\ isSpeaking
              \/ \A u \in 1..Len(utts) : Cancelled(u) \/ Finished(u))
    /\ (isSpeaking /\ \E u \in 1..MaxUtt : Started(u) /\ ~Cancelled(u)) ~> ~isSpeaking

\* one speak() from Idle, its callbacks delivered, no other intent: Idle again
C1_Witness ==
    /\ calls = <<CancelCall, SpeakCall(1)>>
    /\ Finished(1) /\ ~Cancelled(1)
    /\ ~isSpeaking

\* C2: speak() while Speaking issues no command to the engine and leaves the
\* state and the utterances as they are.
C2_SpeakWhileSpeakingNoOp ==
    [][(isSpeaking /\ handleSpeak) =>
          (calls' = calls /\ utts' = utts /\ isSpeaking' /\ UNCHANGED appVars)]_vars

\* Speaking with an utterance in flight, a text speak() would take and room
\* for its commands
C2_Witness ==
    /\ isSpeaking
    /\ Trim(text) # <<>>
    /\ Started(Len(utts)) /\ ~Cancelled(Len(utts))
    /\ Len(calls) + 2 <= MaxCalls

\* C3: stop() while Speaking makes the state Idle in that step and issues
\* exactly one cancel.
C3_StopWhileSpeaking ==
    [][(isSpeaking /\ handleStop) =>
          (~isSpeaking' /\ calls' = Append(calls, CancelCall))]_vars

\* the one utterance had started when stop() cancelled it; no callback came since
C3_Witness ==
    /\ calls = <<CancelCall, SpeakCall(1), CancelCall>>
    /\ Started(1) /\ Cancelled(1)
    /\ ~isSpeaking

\* C4: stop() while Idle makes no call to the engine and changes no state.
C4_StopWhileIdleNoOp ==
    [][(~isSpeaking /\ handleStop) => (calls' = calls /\ UNCHANGED vars)]_vars

\* C5: speak() from Idle with a text that is empty or white space only issues
\* no command to the engine and leaves the state Idle.
C5_BlankTextNoOp ==
    [][(IsBlank(text) /\ ~isSpeaking /\ handleSpeak) =>
          (calls' = calls /\ utts' = utts /\ ~isSpeaking' /\ UNCHANGED appVars)]_vars

\* Idle with a text of white space, voices loaded and room for the commands
C5_Witness ==
    /\ mounted /\ ~isSpeaking /\ ~isLoadingVoices
    /\ text # <<>> /\ IsBlank(text)
    /\ Len(calls) + 2 <= MaxCalls

\* speak() was issued twice, with different texts and nothing else reaching the
\* engine, and no callback of the first utterance has come
TwoSpeaksBeforeStart ==
    /\ Len(utts) = 2 /\ Len(calls) = 4
    /\ Pending(1) /\ Pending(2)
    /\ utts[1].text # utts[2].text

\* C6 as stated: after the two calls the engine has received exactly one cancel
\* and exactly one speak, and the speak carries the second text.
C6_OneCancelOneSpeak ==
    TwoSpeaksBeforeStart =>
        /\ NumCalls("cancel") = 1
        /\ NumCalls("speak") = 1
        /\ calls[Len(calls)] = SpeakCall(2)

\* C6 amended: the second speak(), issued with another text before the start
\* callback of the first, itself issues exactly one cancel followed by exactly
\* one speak; that speak carries the second text and the first utterance is
\* cancelled.  The engine has then received cancel, speak, cancel, speak.
C6_SecondSpeakCancelsThenSpeaks ==
    [][(/\ handleSpeak
        /\ ~isSpeaking /\ ~IsBlank(text)
        /\ calls = <<CancelCall, SpeakCall(1)>>
        /\ Len(utts) = 1 /\ Pending(1) /\ ~Cancelled(1)
        /\ text # utts[1].text)
       => (/\ calls' = <<CancelCall, SpeakCall(1), CancelCall, SpeakCall(2)>>
           /\ Len(utts') = 2
           /\ utts'[2].text = text
           /\ utts'[1].cancelled /\ ~utts'[2].cancelled)]_vars

C6_Witness ==
    /\ TwoSpeaksBeforeStart
    /\ Cancelled(1) /\ ~Cancelled(2)
    /\ ~isSpeaking

\* a newer request has replaced request u and has ended or been stopped
SupersededAndOver(u) ==
    /\ u \in 1..Len(utts) /\ u < Len(utts)
    /\ utts[u].cancelled
    /\ utts[Len(utts)].phase = "finished" \/ utts[Len(utts)].cancelled

\* C7: a start callback of a superseded request, delivered after the request
\* that replaced it has ended or been stopped, leaves the state Idle.
C7_LateStartStaysIdle ==
    [][\A u \in 1..MaxUtt :
          (onstart(u) /\ SupersededAndOver(u) /\ ~isSpeaking) => ~isSpeaking']_vars

\* C8: while the newest utterance has started and has not ended, errored or
\* been stopped, the state is Speaking.
C8_NewestStartedIsSpeaking ==
    (Len(utts) > 0 /\ Started(Len(utts)) /\ ~Cancelled(Len(utts))) => isSpeaking

\* C9: the loading flag starts true, and once false it stays false.
C9_LoadingMonotone ==
    /\ isLoadingVoices = TRUE
    /\ [][~isLoadingVoices => ~isLoadingVoices']_vars

\* the flag is false and the platform has since reported an empty list
C9_Witness ==
    /\ ~isLoadingVoices
    /\ hostVoices = <<>>
    /\ Len(utts) > 0

\* C10: whenever the catalog is not empty the selected voice identifier is the
\* identifier of a voice of the catalog.
C10_SelectedVoiceInCatalog ==
    Len(voices) > 0 => \E i \in 1..Len(voices) : voices[i].voiceURI = selectedVoiceURI

\* the user has picked a voice that is not the default of the catalog
C10_Witness ==
    /\ Len(voices) > 0
    /\ selectedVoiceURI # DefaultVoice(voices).voiceURI
    /\ \E i \in 1..Len(voices) : voices[i].voiceURI = selectedVoiceURI

\* C11: the stored pitch and rate, and the pitch and rate of every utterance
\* submitted to the engine, lie in [0.5, 2.0], whatever values the sliders
\* were asked to take.
C11_PitchRateInRange ==
    /\ pitch \in 5..20 /\ rate \in 5..20
    /\ \A u \in 1..Len(utts) : utts[u].pitch \in 5..20 /\ utts[u].rate \in 5..20

\* an utterance submitted after both sliders were asked for a value out of range
C11_Witness ==
    /\ PitchInputs \cap (5..20) = {} /\ RateInputs \cap (5..20) = {}
    /\ pitch # DefaultPitchRate /\ rate # DefaultPitchRate
    /\ \E u \in 1..Len(utts) :
          utts[u].pitch # DefaultPitchRate /\ utts[u].rate # DefaultPitchRate

\* C12: a platform voice list that is non-empty, at initialization or made so
\* by a change the platform announces with voiceschanged, leads to a
\* non-empty catalog and a loading flag that is false.
C12_VoicesLeadToCatalog ==
    (Len(hostVoices) > 0) ~> (Len(voices) > 0 /\ ~isLoadingVoices)

\* the catalog published, and the platform's list emptied after that
C12_Witness ==
    /\ Len(voices) > 0 /\ ~isLoadingVoices
    /\ voices = <<V4, V2>> /\ hostVoices = <<>>

\* utterances submitted that the engine has neither finished nor been told to drop
InFlight == { u \in 1..Len(utts) : ~utts[u].cancelled /\ utts[u].phase # "finished" }

\* C13: every speak command in the engine's log comes right after a cancel
\* command, the two appended by one call of speak(), and at most one
\* utterance is in flight at any time.
C13_CancelBeforeEverySpeak ==
    /\ [](\A i \in 1..Len(calls) :
            calls[i].op = "speak" => (i > 1 /\ calls[i - 1] = CancelCall))
    /\ [](Cardinality(InFlight) <= 1)
    /\ [][NumCalls("speak")' # NumCalls("speak") =>
            /\ handleSpeak
            /\ calls' = calls \o <<CancelCall, SpeakCall(Len(utts'))>>]_vars

\* a second utterance submitted while the first was still pending
C13_Witness ==
    /\ Len(utts) = 2 /\ NumCalls("speak") = 2
    /\ utts[1].cancelled /\ utts[1].phase = "pending"
    /\ InFlight = {2}

\* speak() leaves the playback state as it was, and only a start callback
\* moves Idle to Speaking
C14_OnlyStartMakesSpeaking ==
    /\ [][handleSpeak => isSpeaking' = isSpeaking]_vars
    /\ [][(~isSpeaking /\ isSpeaking') => \E u \in 1..MaxUtt : onstart(u)]_vars

\* C14: submission alone does not change the playback state: speak() leaves
\* it as it was, only a start callback moves Idle to Speaking, and from the
\* submission of a request until the start callback of that request the
\* state is Idle.
C14_IdleUntilOwnStart ==
    /\ C14_OnlyStartMakesSpeaking
    /\ [](\A u \in 1..MaxUtt : (Pending(u) /\ ~Cancelled(u)) => ~isSpeaking)

\* a step in which loadVoices runs: the eager attempt of the effect, or a
\* voiceschanged event dispatched to the attached handler
RefreshStep ==
    \/ Mount
    \/ onvoiceschanged = "loadVoices" /\ \E vl \in HostVoiceLists : VoicesChanged(vl)

\* nothing published: empty catalog, no selection, loading, handler attached
NothingPublished ==
    /\ voices = <<>> /\ selectedVoiceURI = "" /\ isLoadingVoices = TRUE
    /\ mounted => onvoiceschanged = "loadVoices"

\* C15: a refresh that finds the platform's list empty leaves the catalog
\* empty, the selection unset, the loading flag true and the handler
\* attached; while the platform has reported no voices this is so in every
\* state, and when it never reports any, in every state of the run.
C15_EmptyRefreshChangesNothing ==
    /\ [][(RefreshStep /\ hostVoices' = <<>>) =>
            /\ UNCHANGED <<voices, selectedVoiceURI, isLoadingVoices>>
            /\ NothingPublished /\ NothingPublished']_vars
    /\ []((mounted /\ onvoiceschanged = "loadVoices") => NothingPublished)
    /\ ([](hostVoices = <<>>) => []NothingPublished)

\* a speech session begun and a voiceschanged event handled, the platform
\* still without voices
C15_Witness ==
    /\ mounted /\ hostVoices = <<>> /\ NothingPublished
    /\ Len(utts) > 0 /\ utts[1].voice = NullVoice

\* C16: the first publication of a non-empty catalog detaches the handler,
\* so the catalog is published at most once: a voiceschanged event after
\* that changes neither the catalog, nor the selected voice (the default or
\* the one the user picked), nor the loading flag.
C16_PublishedOnce ==
    /\ [][(voices = <<>> /\ voices' # <<>>) => onvoiceschanged' = "null"]_vars
    /\ [](voices # <<>> => onvoiceschanged = "null")
    /\ [][voices # <<>> => voices' = voices]_vars
    /\ [][(voices # <<>> /\ \E vl \in HostVoiceLists : VoicesChanged(vl)) =>
            UNCHANGED <<voices, selectedVoiceURI, isLoadingVoices>>]_vars

\* the platform's list replaced by another after the publication, the catalog
\* and the voice the user picked still in place
C16_Witness ==
    /\ voices = <<V2, V1>> /\ hostVoices = <<V4, V2>>
    /\ selectedVoiceURI = "v2" /\ ~isLoadingVoices

\* a second en-US voice, and lists that put the en-US voices first, last,
\* twice and nowhere
V3 == [voiceURI |-> "v3", lang |-> "en-US"]
DefaultExamples ==
    { <<V1, V2>>, <<V2, V1>>, <<V4, V2>>, <<V2, V3, V1>>, <<V1, V3>>, <<V4>>, <<V3, V4, V1>> }

\* uri is the voice the selection policy names for the list vl: the voice at
\* the least position whose lang is en-US, and the voice at position 1 when
\* no position has lang en-US
IsPolicyDefault(uri, vl) ==
    \E i \in 1..Len(vl) :
        /\ vl[i].voiceURI = uri
        /\ \/ vl[i].lang = "en-US" /\ \A j \in 1..(i - 1) : vl[j].lang # "en-US"
           \/ i = 1 /\ \A j \in 1..Len(vl) : vl[j].lang # "en-US"

\* C17: the default selection a publication makes is the first voice of the
\* list whose lang is en-US, and the first voice of the list when there is
\* none; for [v1/en-US, v2/fr-FR] it is v1.
C17_DefaultIsFirstEnUS ==
    /\ DefaultVoice(<<V1, V2>>).voiceURI = "v1"
    /\ \A vl \in DefaultExamples : IsPolicyDefault(DefaultVoice(vl).voiceURI, vl)
    /\ [][(voices = <<>> /\ voices' # <<>>) =>
            IsPolicyDefault(selectedVoiceURI', voices')]_vars

\* a catalog published with the en-US voice in second place and selected
C17_Witness ==
    /\ voices = <<V2, V1>> /\ selectedVoiceURI = "v1"
    /\ text = <<>> /\ Len(calls) = 0 /\ hostVoices = voices

\* C18: through the controls, the parameters are edited while Idle only: no
\* step taken while Speaking changes the text, the selected voice, the pitch
\* or the rate.
C18_NoEditWhileSpeaking ==
    [][isSpeaking => UNCHANGED <<text, selectedVoiceURI, pitch, rate>>]_vars

\* Speaking with every parameter away from its initial value and the platform
\* announcing another list
C18_Witness ==
    /\ isSpeaking /\ text = <<"b">> /\ pitch # DefaultPitchRate /\ rate # DefaultPitchRate
    /\ selectedVoiceURI = "v2" /\ hostVoices # voices

\* C19: an error callback is absorbed like a normal end: it leaves the state
\* Idle and every other field of the component as it was (there is no error
\* state), on a started utterance it is the very step an end callback takes,
\* and it sends the engine nothing; a command reaches the engine only from a
\* call of speak() or stop().
C19_ErrorAbsorbedLikeEnd ==
    /\ [][\A u \in 1..MaxUtt : onerror(u) =>
            /\ isSpeaking' = FALSE
            /\ UNCHANGED <<text, voices, selectedVoiceURI, pitch, rate, isLoadingVoices>>
            /\ calls' = calls /\ Len(utts') = Len(utts)
            /\ (utts[u].phase = "started" => onend(u))]_vars
    /\ [][calls' # calls => (handleSpeak \/ handleStop)]_vars

\* the state an error callback on the one utterance of a session leaves (an
\* end callback leaves the same): Idle, the utterance over, and the one speak
\* command of the user in the log
C19_Witness ==
    /\ ~isSpeaking /\ Len(utts) = 1 /\ Finished(1) /\ ~Cancelled(1)
    /\ calls = <<CancelCall, SpeakCall(1)>>
    /\ ~IsBlank(text)

\* C20: through the Speak button, a speak command is sent only with a text
\* that is not blank, the loading over and a voice selected; so every
\* utterance submitted carries a voice of the catalog, never the platform
\* default, and no speak command reaches the engine while the loading flag
\* is true.
C20_SpeakButtonGate ==
    /\ [][NumCalls("speak")' # NumCalls("speak") =>
            /\ ~IsBlank(text) /\ ~isLoadingVoices
            /\ selectedVoiceURI \in VoiceOptions]_vars
    /\ [](\A u \in 1..Len(utts) :
            /\ utts[u].voice # NullVoice
            /\ \E i \in 1..Len(voices) : voices[i] = utts[u].voice)
    /\ [](Len(utts) > 0 => ~isLoadingVoices)

\* an utterance submitted from the button with the voice the user picked
C20_Witness ==
    /\ Len(utts) = 1 /\ Pending(1) /\ utts[1].voice = V2
    /\ voices = <<V2, V1>> /\ calls = <<CancelCall, SpeakCall(1)>>

TypeOK ==
    /\ text \in Texts
    /\ pitch \in SliderPositions /\ rate \in SliderPositions
    /\ isSpeaking \in BOOLEAN /\ isLoadingVoices \in BOOLEAN
    /\ Len(utts) <= MaxUtt /\ Len(calls) <= MaxCalls
====
